---- MODULE Spec2Model ----
(***************************************************************************)
(* Model of the pre-execution pipeline of src/src/lib/declarations.ts      *)
(* (class PreExecutor and sendErrorToConduit): the promise chain of run(), *)
(* the fatal-error channel of registerErrorHandler, _handleError, the      *)
(* early-event buffer, swapLoader, getConfig and resolveSuites; and of the  *)
(* argument parser of src/unnamed/part_001 and of the HTML output of the   *)
(* WebDriver reporter of src/unnamed/part_000.                             *)
(***************************************************************************)
EXTENDS Integers, Sequences, FiniteSets, TLC

(* ------------------------------ bounds --------------------------------- *)
\* calls of run() made by the embedding code
MaxRunCalls == 2
\* calls of registerErrorHandler made by code other than run()
MaxRegs == 2
\* fatal errors raised on the host's error channel
MaxUncaught == 2
\* direct calls of swapLoader
MaxSwaps == 2
\* alias targets of a wildcard alias map are numbered 1..MaxStarValue
MaxStarValue == 3
\* calls of getConfig
MaxGetConfigCalls == 2
\* raw arguments on the command line
MaxArgs == 3
\* suiteStart and suiteEnd events the runner sends to the WebDriver reporter
MaxSuiteEvents == 7

(* ------------------------------ values --------------------------------- *)
Hosts == {"browser", "node"}

\* Error objects that a stage or the host may produce.  Eplain is an ordinary
\* error, Ereported already carries the `reported` marker, Ecyclic is an error
\* whose fields JSON.stringify cannot serialise.
Errors == {"Eplain", "Ereported", "Ecyclic"}

\* The exception that escapes _handleError when reporting itself fails.
HandlerError == "HandlerError"

\* The value the executor's run() resolves with.
RunResult == "RunResult"

\* The pipeline's own handler (lang.bind(this, '_handleError')) and the
\* handlers other code registers.
EarlyHandler == 0
CustomHandlers == {1, 2}

\* The stages of the promise chain of run(), in the order of the chain.
Stages ==
  <<"getConfig", "swapLoader", "resolveSuites", "populateMainModule",
    "loadExecutorWithLoader", "runExecutor">>

NumStages == Len(Stages)

\* The two deprecation events getConfig may buffer.
DepLoaderEvent == "deprecated:loader"
DepUseLoaderEvent == "deprecated:useLoader"

\* Loader references (config.loaders[host]); NoRef is an absent entry.
NoRef == "none"
LoaderRefs == {"loaderA"}

\* Loader objects.  BootLoader is the loader that bootstrapped the page or
\* process; Undef is the JavaScript value undefined.
Undef == "undefined"
BootLoader == "bootLoader"
NewLoader == "newLoader"

VARIABLES
  host,          \* has('host-browser') / has('host-node')
  remotePath,    \* location.pathname lies in a directory named /__intern/
  session,       \* the sessionId query parameter of location.search ("none": absent)
  reported,      \* the `reported` marker of each error object
  loaderKind,    \* how the requested loader publishes itself: "exports" or "global"
  localPath,     \* Module._findPath finds the loader under basePath, at another path
  config,        \* the configuration getConfig resolved with
  chainValue,    \* the value the last settled stage passed down the chain
  runReplaced,   \* this.run has been replaced by the memoizing closure
  runReturns,    \* the promise returned by each call of run(), in call order
  promises,      \* number of promises created by the body of run()
  pc,            \* position of the promise chain
  stage,         \* index of the stage in progress or last started (0: none)
  started,       \* stages started so far, in order
  inFlight,      \* set of stages started and not yet settled
  settledOk,     \* stages that settled successfully, in order
  failedStage,   \* index of the stage that failed (0: none)
  failedError,   \* the error that stage failed with
  catchOutcome,  \* what the catch callback of run() did
  promiseState,  \* state of the promise returned by run()
  promiseValue,  \* its value or rejection reason
  earlyEvents,   \* this._earlyEvents
  bufferResets,  \* number of times run() assigned this._earlyEvents = []
  executorLog,   \* what runExecutor did to the executor, in order
  listeners,     \* listeners installed on the host's error channel, in registration order
  handles,       \* the Removable handles registerErrorHandler has returned
  earlyHandle,   \* this._earlyErrorHandle (0: null), an index into handles
  extRegs,       \* registerErrorHandler calls made by code other than run()
  uncaught,      \* number of fatal errors raised on the channel
  invoked,       \* handler invocations, in order
  io,            \* user-visible effects of _handleError, in order
  sequence,      \* the counter of sendErrorToConduit
  posted,        \* the messages posted to the remote collector, in order
  sendCalls,     \* outcome of every call of sendErrorToConduit, in order
  exited,        \* process.exit has been called
  globalRequire, \* _global.require
  globalDefine,  \* _global.define
  moduleCache,   \* keys of require.cache (node)
  loaderExecs,   \* number of times the loader module's code has executed
  scriptInDoc,   \* the injected <script> element is in the document
  swap,          \* the swapLoader call in progress
  swapCalls,     \* number of direct swapLoader calls
  configLog,     \* calls of the loader's configuration function, in order
  swapLog,       \* what every finished swapLoader call did
  defaultStarMap,   \* this.defaultLoaderOptions.map['*']
  userStarMap,      \* loaderOptions.map['*'] of the swapLoader call
  loaderOptionsArg, \* that map as it was when swapLoader was called
  setConfigArgs,    \* the map['*'] of every options object given to setConfig
  cfgSuites,     \* config.suites as getConfig resolved it
  suites,        \* config.suites
  requests,      \* the HTTP requests resolveSuites has issued, in order
  response,      \* the response to the request of resolveSuites
  suitesOutcome, \* what resolveSuites did
  getConfigReplaced, \* this.getConfig has been replaced by the memoizing closure
  getConfigLog,      \* args.config and the result of every call of getConfig
  moduleLoads,       \* number of util.getModule calls made by getConfig
  callbackRuns,      \* number of those loads that have settled
  mergedConfig,      \* lang.deepMixin(config, args): the module merged with args
  resolution,        \* how the promise of getConfig settled
  rawArgs,       \* the raw argument list given to fromCommandLine
  parsedArgs,    \* the object parseArguments returned
  writeHtml,     \* this.writeHtml of the WebDriver reporter
  suiteNode,     \* this.suiteNode (NoNode: never assigned)
  dom,           \* the nodes of the document: the tag and parentNode of each
  openSuites,    \* the list node created for each suite that has started and not ended
  sentEvents     \* the names of the events given to _sendEvent, in order

runVars == <<runReplaced, runReturns, promises, bufferResets>>

chainVars == <<pc, stage, started, inFlight, settledOk, chainValue>>

failVars == <<failedStage, failedError, catchOutcome>>

promVars == <<promiseState, promiseValue>>

pipeVars ==
  <<runVars, chainVars, failVars, promVars, earlyEvents, executorLog, config>>

registryVars == <<listeners, handles, earlyHandle, extRegs>>

bridgeVars == <<registryVars, uncaught, invoked>>

reportVars == <<io, sequence, posted, sendCalls, exited>>

slotVars == <<globalRequire, globalDefine, moduleCache, loaderExecs, scriptInDoc>>

loaderVars == <<slotVars, swap, swapCalls, configLog, swapLog>>

envVars == <<host, remotePath, session, reported, loaderKind, localPath>>

suiteVars == <<cfgSuites, suites, requests, response, suitesOutcome>>

mergeVars == <<defaultStarMap, userStarMap, loaderOptionsArg, setConfigArgs>>

\* what the actions of the pipeline, the error channel and swapLoader's
\* loader slot never write
getConfigVars ==
  <<getConfigReplaced, getConfigLog, moduleLoads, callbackRuns, mergedConfig,
    resolution>>

parseVars == <<rawArgs, parsedArgs>>

webDriverVars == <<writeHtml, suiteNode, dom, openSuites, sentEvents>>

sideVars == <<mergeVars, suiteVars, getConfigVars, parseVars, webDriverVars>>

vars == <<envVars, pipeVars, bridgeVars, reportVars, loaderVars, sideVars>>

(* --------------------------- generic helpers --------------------------- *)
RECURSIVE Reverse(_)
Reverse(s) == IF s = <<>> THEN <<>> ELSE Append(Reverse(Tail(s)), Head(s))

RECURSIVE SelectSeq2(_, _)
\* the subsequence of s whose elements' lid differs from k
SelectSeq2(s, k) ==
  IF s = <<>> THEN <<>>
  ELSE IF Head(s).lid = k THEN SelectSeq2(Tail(s), k)
       ELSE <<Head(s)>> \o SelectSeq2(Tail(s), k)

RECURSIVE CountOf(_, _)
CountOf(s, x) ==
  IF s = <<>> THEN 0
  ELSE (IF Head(s) = x THEN 1 ELSE 0) + CountOf(Tail(s), x)

(* ----------------------- error reporting (bridge) ---------------------- *)
\* JSON.stringify of { name, message, stack, sessionId } succeeds for e.
Serializable(e) == e # "Ecyclic"

\* The part of the state _handleError and the handlers act on.
ReportState ==
  [io |-> io, sequence |-> sequence, posted |-> posted, sendCalls |-> sendCalls,
   exited |-> exited, invoked |-> invoked]

\* sendErrorToConduit with the increment moved before the serialisation.
SendErrorToConduit_IncrementFirst(e, r) ==
  IF session = "none"
  THEN [r |-> [r EXCEPT !.sendCalls = Append(@, "noSession")], threw |-> FALSE]
  ELSE IF ~Serializable(e)
  THEN [r |-> [r EXCEPT !.sendCalls = Append(@, "threw"), !.sequence = @ + 1],
        threw |-> TRUE]
  ELSE [r |-> [r EXCEPT
                 !.posted = Append(@, [sequence |-> r.sequence + 1,
                                       sessionId |-> session, error |-> e]),
                 !.io = Append(@, [k |-> "post", e |-> e]),
                 !.sequence = @ + 1,
                 !.sendCalls = Append(@, "posted")],
        threw |-> FALSE]

\* sendErrorToConduit(error): returns the new report state and whether the call
\* threw.  No sessionId in location.search: return.  Otherwise serialise the
\* message with the current sequence number (this may throw, and then nothing
\* below runs), post it, and only then increment the counter.
SendErrorToConduit(e, r) ==
  IF session = "none"
  THEN [r |-> [r EXCEPT !.sendCalls = Append(@, "noSession")], threw |-> FALSE]
  ELSE IF ~Serializable(e)
  THEN [r |-> [r EXCEPT !.sendCalls = Append(@, "threw")], threw |-> TRUE]
  ELSE [r |-> [r EXCEPT
                 !.posted = Append(@, [sequence |-> r.sequence,
                                       sessionId |-> session, error |-> e]),
                 !.io = Append(@, [k |-> "post", e |-> e]),
                 !.sequence = @ + 1,
                 !.sendCalls = Append(@, "posted")],
        threw |-> FALSE]

\* _handleError(error).  Browser: forward to the collector when the page lives
\* in /__intern/, then render the error into the document.  Otherwise (node,
\* console defined): console.error, then process.exit(1).
HandleError(e, r) ==
  IF host = "browser"
  THEN LET c == IF remotePath THEN SendErrorToConduit(e, r)
                ELSE [r |-> r, threw |-> FALSE]
       IN  IF c.threw THEN c
           ELSE [r |-> [c.r EXCEPT !.io = Append(@, [k |-> "render", e |-> e])],
                 threw |-> FALSE]
  ELSE [r |-> [r EXCEPT !.io = @ \o <<[k |-> "console", e |-> e],
                                      [k |-> "exit1", e |-> e]>>,
                        !.exited = TRUE],
        threw |-> FALSE]

\* A call of handler h with error e; via is "catch" (the catch callback of
\* run) or "channel" (a listener of the host's error channel).
InvokeHandler(h, e, r, via) ==
  LET r1 == [r EXCEPT !.invoked = Append(@, [h |-> h, e |-> e, via |-> via])]
  IN  IF h = EarlyHandler THEN HandleError(e, r1)
      ELSE [r |-> r1, threw |-> FALSE]

\* The function object of the listener that registration lid installs: an
\* anonymous wrapper around the handler, never the handler itself.
WrapperFn(lid) == <<"wrapper", lid>>
HandlerFn(h) == <<"handler", h>>

RECURSIVE LastIndexOf(_, _)
\* index of the last listener of ls whose function object is fn, 0 if none
LastIndexOf(ls, fn) ==
  IF ls = <<>> THEN 0
  ELSE IF ls[Len(ls)].fn = fn THEN Len(ls)
       ELSE LastIndexOf(SubSeq(ls, 1, Len(ls) - 1), fn)

\* process.removeListener('uncaughtException', fn): removes the most recently
\* added listener that is the function fn, if there is one.
RemoveListener(ls, fn) ==
  LET i == LastIndexOf(ls, fn)
  IN  IF i = 0 THEN ls
      ELSE SubSeq(ls, 1, i - 1) \o SubSeq(ls, i + 1, Len(ls))

\* remove() of the handle k that registerErrorHandler returned, on the record
\* b = [listeners, handles].  Browser: the handle of aspect.before removes its
\* own advice.  Node: the first call replaces this.remove by a no-op and calls
\* process.removeListener with the handler that was registered.
HandleRemove(k, b) ==
  IF host = "browser"
  THEN [listeners |-> SelectSeq2(b.listeners, k),
        handles |-> [b.handles EXCEPT ![k].removed = TRUE]]
  ELSE IF b.handles[k].removed THEN b
       ELSE [listeners |-> RemoveListener(b.listeners, HandlerFn(b.handles[k].h)),
             handles |-> [b.handles EXCEPT ![k].removed = TRUE]]

\* registerErrorHandler(handler) on b = [listeners, handles] with
\* this._earlyErrorHandle = early: removes the early handle if there is one,
\* installs a wrapper listener for the handler, and returns its handle.
RegisterErrorHandler(h, b, early) ==
  LET b1  == IF early # 0 THEN HandleRemove(early, b) ELSE b
      lid == Len(b1.handles) + 1
  IN  [listeners |-> Append(b1.listeners, [lid |-> lid, fn |-> WrapperFn(lid), h |-> h]),
       handles   |-> Append(b1.handles, [h |-> h, removed |-> FALSE]),
       handle    |-> lid]

\* Order in which the channel calls its listeners: aspect.before runs the most
\* recently added advice first; a node EventEmitter runs in registration order.
ChannelOrder(ls) == IF host = "browser" THEN Reverse(ls) ELSE ls

RECURSIVE Dispatch(_, _, _)
\* The channel calling the listeners ls with error e; stops when the process
\* has exited or a listener throws.
Dispatch(ls, e, r) ==
  IF ls = <<>> \/ r.exited THEN [r |-> r, threw |-> FALSE]
  ELSE LET c == InvokeHandler(Head(ls).h, e, r, "channel")
       IN  IF c.threw THEN c ELSE Dispatch(Tail(ls), e, c.r)

(* ------------------------------ loader swap ---------------------------- *)
\* require.resolve(ref): the path node resolves the reference to.
ResolvedPath(ref) == <<"resolved", ref>>

\* The module id line 498-505 loads: the path Module._findPath finds under
\* basePath when it finds one, otherwise the reference itself.
LoadPath(ref) == IF localPath THEN <<"local", ref>> ELSE ResolvedPath(ref)

NoSwap ==
  [phase |-> "idle", ref |-> NoRef, hasOpts |-> FALSE, caller |-> "none",
   loader |-> Undef, before |-> Undef, cached |-> FALSE, execsBefore |-> 0,
   defineBefore |-> Undef]

\* The record of a swapLoader call that has just been made.
NewSwap(ref, hasOpts, caller) ==
  [phase |-> "idle", ref |-> ref, hasOpts |-> hasOpts, caller |-> caller,
   loader |-> Undef, before |-> globalRequire,
   cached |-> (host = "node" /\ ref # NoRef /\ ResolvedPath(ref) \in moduleCache),
   execsBefore |-> loaderExecs, defineBefore |-> globalDefine]

\* Lines 496-521: clear the global slots, load the loader module with node's
\* require (which executes it only if its path is not cached; throws: require
\* throws), take the export if it is a function and the global require
\* otherwise, and publish it globally if no global require is set.
SwapNodeLoad(ref, hasOpts, caller, throws) ==
  LET sw == NewSwap(ref, hasOpts, caller)
  IN
  IF throws
  THEN /\ globalRequire' = Undef
       /\ globalDefine' = Undef
       /\ swap' = [sw EXCEPT !.phase = "failed"]
       /\ UNCHANGED <<moduleCache, loaderExecs>>
  ELSE LET path     == LoadPath(ref)
           executes == path \notin moduleCache
           \* _global.require after require(id) has returned
           afterReq == IF executes /\ loaderKind = "global" THEN NewLoader ELSE Undef
           amd      == IF loaderKind = "exports" THEN NewLoader ELSE afterReq
       IN  /\ moduleCache' = moduleCache \cup {path}
           /\ loaderExecs' = IF executes THEN loaderExecs + 1 ELSE loaderExecs
           /\ globalDefine' = IF executes /\ loaderKind = "global" THEN "define" ELSE Undef
           /\ globalRequire' = IF afterReq = Undef THEN amd ELSE afterReq
           /\ swap' = [sw EXCEPT !.phase = "obtained", !.loader = amd]

\* The headless branch without the test of require.cache.
SwapNode_NoCacheCheck(ref, hasOpts, caller, throws) ==
  SwapNodeLoad(ref, hasOpts, caller, throws)

\* The executor of the promise of swapLoader on a headless host with a loader
\* reference (lines 483-522): a loader module that is already in require.cache
\* is not loaded again, the promise resolves with _global.require as it is.
SwapNode(ref, hasOpts, caller, throws) ==
  IF ResolvedPath(ref) \in moduleCache
  THEN /\ swap' = [NewSwap(ref, hasOpts, caller) EXCEPT
                     !.phase = "obtained", !.loader = globalRequire]
       /\ UNCHANGED <<globalRequire, globalDefine, moduleCache, loaderExecs>>
  ELSE SwapNodeLoad(ref, hasOpts, caller, throws)

\* The executor on a browser host with a loader reference (lines 523-542):
\* clears the slots and injects the script element.
SwapBrowser(ref, hasOpts, caller) ==
  /\ globalRequire' = Undef
  /\ globalDefine' = Undef
  /\ scriptInDoc' = TRUE
  /\ swap' = [NewSwap(ref, hasOpts, caller) EXCEPT !.phase = "scriptPending"]
  /\ UNCHANGED <<moduleCache, loaderExecs>>

\* The executor when no loader reference applies to the host (lines 543-545).
SwapNone(ref, hasOpts, caller) ==
  /\ swap' = [NewSwap(ref, hasOpts, caller) EXCEPT
                !.phase = "obtained", !.loader = globalRequire]
  /\ UNCHANGED <<globalRequire, globalDefine, moduleCache, loaderExecs>>

\* swapLoader(basePath, loaders, loaderOptions) up to the end of the promise
\* executor; ref is loaders[host] (NoRef when absent).
SwapBegin(ref, hasOpts, caller, throws) ==
  /\ IF host = "node" /\ ref # NoRef
     THEN SwapNode(ref, hasOpts, caller, throws) /\ UNCHANGED scriptInDoc
     ELSE IF host = "browser" /\ ref # NoRef
     THEN SwapBrowser(ref, hasOpts, caller)
     ELSE SwapNone(ref, hasOpts, caller) /\ UNCHANGED scriptInDoc
  /\ UNCHANGED <<configLog, swapLog>>

\* script.onload: the loader script has run and registered itself, as the
\* global require/define ("global") or under another global name such as curl
\* ("exports"); the promise resolves with curl || requirejs || require.
ScriptLoaded ==
  /\ ~exited
  /\ swap.phase = "scriptPending"
  /\ globalRequire' = IF loaderKind = "global" THEN NewLoader ELSE globalRequire
  /\ globalDefine' = IF loaderKind = "global" THEN "define" ELSE globalDefine
  /\ loaderExecs' = loaderExecs + 1
  /\ swap' = [swap EXCEPT !.phase = "obtained", !.loader = NewLoader]
  /\ UNCHANGED <<moduleCache, scriptInDoc, swapCalls, configLog, swapLog>>

\* script.onerror without the removal of the element.
ScriptFailed_KeepsElement ==
  /\ ~exited
  /\ swap.phase = "scriptPending"
  /\ swap' = [swap EXCEPT !.phase = "failed"]
  /\ UNCHANGED <<globalRequire, globalDefine, moduleCache, loaderExecs, swapCalls,
                 configLog, swapLog, scriptInDoc>>

\* script.onerror (lines 536-539): the element is removed and the promise
\* rejects.
ScriptFailed ==
  /\ ~exited
  /\ swap.phase = "scriptPending"
  /\ scriptInDoc' = FALSE
  /\ swap' = [swap EXCEPT !.phase = "failed"]
  /\ UNCHANGED <<globalRequire, globalDefine, moduleCache, loaderExecs, swapCalls,
                 configLog, swapLog>>

\* The entries the then-callback of swapLoader appends to the log of
\* configuration calls, with the order of the two calls exchanged.
ConfigCalls_UserFirst(loader, hasOpts) ==
  IF hasOpts
  THEN <<[loader |-> loader, opts |-> "user"], [loader |-> loader, opts |-> "default"]>>
  ELSE <<[loader |-> loader, opts |-> "default"]>>

\* The configuration calls of the then-callback of swapLoader (lines 546-568):
\* setConfig(this.defaultLoaderOptions), then setConfig(loaderOptions) if
\* loaderOptions is truthy.
ConfigCalls(loader, hasOpts) ==
  <<[loader |-> loader, opts |-> "default"]>> \o
  (IF hasOpts THEN <<[loader |-> loader, opts |-> "user"]>> ELSE <<>>)

\* What a finished swapLoader call did.
SwapEntry(outcome) ==
  [ref |-> swap.ref, cached |-> swap.cached, hasOpts |-> swap.hasOpts,
   outcome |-> outcome, loader |-> swap.loader, before |-> swap.before,
   after |-> globalRequire,
   defineKept |-> (globalDefine = swap.defineBefore),
   execs |-> loaderExecs - swap.execsBefore,
   logFrom |-> Len(configLog) + 1]

\* The rejection of the chain by stage i with error e.
ChainRejects(i, e) ==
  /\ pc' = "rejecting"
  /\ inFlight' = inFlight \ {i}
  /\ failedStage' = i
  /\ failedError' = e
  /\ UNCHANGED <<stage, started, settledOk, chainValue, catchOutcome>>

\* Stage i settles successfully and passes v to the next stage.
ChainContinues(i, v) ==
  /\ pc' = "next"
  /\ inFlight' = inFlight \ {i}
  /\ settledOk' = Append(settledOk, i)
  /\ chainValue' = v
  /\ UNCHANGED <<stage, started, failVars>>

\* The then-callback of swapLoader (lines 546-568): configures the loader the
\* executor resolved with and resolves with it; reading .config of an
\* undefined loader throws.
SwapConfigure ==
  /\ ~exited
  /\ swap.phase = "obtained"
  /\ IF swap.loader = Undef
     THEN /\ swap' = [swap EXCEPT !.phase = "rejected"]
          /\ swapLog' = Append(swapLog, SwapEntry("rejected"))
          /\ UNCHANGED configLog
          /\ IF swap.caller = "pipeline" THEN ChainRejects(2, "Eplain")
             ELSE UNCHANGED <<chainVars, failVars>>
     ELSE /\ swap' = [swap EXCEPT !.phase = "done"]
          /\ swapLog' = Append(swapLog, SwapEntry("done"))
          /\ configLog' = configLog \o ConfigCalls(swap.loader, swap.hasOpts)
          /\ IF swap.caller = "pipeline" THEN ChainContinues(2, swap.loader)
             ELSE UNCHANGED <<chainVars, failVars>>
  /\ UNCHANGED <<envVars, sideVars, runVars, promVars, earlyEvents, executorLog, config,
                 bridgeVars, reportVars, slotVars, swapCalls>>

\* The promise of swapLoader rejects (the executor threw, or script.onerror
\* rejected it); the then-callback does not run.
SwapRejected ==
  /\ ~exited
  /\ swap.phase = "failed"
  /\ swap' = [swap EXCEPT !.phase = "rejected"]
  /\ swapLog' = Append(swapLog, SwapEntry("rejected"))
  /\ IF swap.caller = "pipeline" THEN ChainRejects(2, "Eplain")
     ELSE UNCHANGED <<chainVars, failVars>>
  /\ UNCHANGED <<envVars, sideVars, runVars, promVars, earlyEvents, executorLog, config,
                 bridgeVars, reportVars, slotVars, swapCalls, configLog>>

SwapScriptLoaded ==
  /\ ScriptLoaded
  /\ UNCHANGED <<envVars, sideVars, pipeVars, bridgeVars, reportVars>>

SwapScriptFailed ==
  /\ ScriptFailed
  /\ UNCHANGED <<envVars, sideVars, pipeVars, bridgeVars, reportVars>>

\* A call of swapLoader made by code other than run().
SwapLoaderCall(ref, hasOpts, throws) ==
  /\ ~exited
  /\ swapCalls < MaxSwaps
  /\ swap.phase \in {"idle", "done", "rejected"}
  /\ swapCalls' = swapCalls + 1
  /\ SwapBegin(ref, hasOpts, "direct", throws)
  /\ UNCHANGED <<envVars, sideVars, pipeVars, bridgeVars, reportVars>>

(* ----------------- swapLoader: the wildcard alias maps ----------------- *)
\* Module ids a wildcard alias map (map['*']) may alias, and their targets.
StarKeys == {"a", "b"}
StarValues == 1..MaxStarValue

\* The value of options.map['*']: absent (options, options.map or the entry
\* itself is missing), or an object from module ids to targets.
AbsentStar == [present |-> FALSE, map |-> <<>>]
StarMap(m) == [present |-> TRUE, map |-> m]
StarMaps == UNION {[K -> StarValues] : K \in SUBSET StarKeys}
StarOptions == {AbsentStar} \cup {StarMap(m) : m \in StarMaps}

\* userStarMap[key] = defaultStarMap[key] (line 558).
AssignKey(U, key, v) ==
  [k \in DOMAIN U \cup {key} |-> IF k = key THEN v ELSE U[k]]

\* The loop with the test of line 557 left out: defaults overwrite.
RECURSIVE MergeStarMap_Overwrites(_, _, _)
MergeStarMap_Overwrites(keys, D, U) ==
  IF keys = {} THEN U
  ELSE LET key == CHOOSE k \in keys : TRUE
       IN  MergeStarMap_Overwrites(keys \ {key}, D, AssignKey(U, key, D[key]))

\* The loop of lines 556-560 over the keys of defaultStarMap not yet visited:
\* a key the user's map does not have is assigned the default's target.
RECURSIVE MergeStarMap(_, _, _)
MergeStarMap(keys, D, U) ==
  IF keys = {} THEN U
  ELSE LET key == CHOOSE k \in keys : TRUE
       IN  MergeStarMap(keys \ {key}, D,
                        IF key \in DOMAIN U THEN U ELSE AssignKey(U, key, D[key]))

\* loaderOptions.map['*'] after lines 550-562: merged in place when both the
\* user's and the default options have a wildcard alias map.
UserStarAfterMerge(D, U) ==
  IF U.present /\ D.present
  THEN StarMap(MergeStarMap(DOMAIN D.map, D.map, U.map))
  ELSE U

\* The then-callback of swapLoader (lines 546-568) for a loader that loaded
\* and a loaderOptions argument that is an object: setConfig is called with
\* the default options, the wildcard maps are merged, setConfig is called
\* with loaderOptions.
ConfigureWithOptions ==
  /\ setConfigArgs = <<>>
  /\ userStarMap' = UserStarAfterMerge(defaultStarMap, userStarMap)
  /\ setConfigArgs' = <<[opts |-> "default", star |-> defaultStarMap],
                        [opts |-> "user", star |-> userStarMap']>>
  /\ UNCHANGED <<defaultStarMap, loaderOptionsArg, envVars, webDriverVars, parseVars, pipeVars, bridgeVars,
                 reportVars, loaderVars, suiteVars, getConfigVars>>

(* ------------------------------ run() ---------------------------------- *)
Registry == [listeners |-> listeners, handles |-> handles]

SetReport(r) ==
  /\ io' = r.io
  /\ sequence' = r.sequence
  /\ posted' = r.posted
  /\ sendCalls' = r.sendCalls
  /\ exited' = r.exited
  /\ invoked' = r.invoked

\* The body of run() (lines 347-469): registers _handleError as the early
\* error handler, empties the early-event buffer, builds the promise chain and
\* replaces this.run by a closure returning the chain's promise.
RunBody ==
  LET reg == RegisterErrorHandler(EarlyHandler, Registry, earlyHandle)
  IN  /\ listeners' = reg.listeners
      /\ handles' = reg.handles
      /\ earlyHandle' = reg.handle
      /\ earlyEvents' = <<>>
      /\ bufferResets' = bufferResets + 1
      /\ promises' = promises + 1
      /\ runReturns' = Append(runReturns, promises + 1)
      /\ runReplaced' = TRUE
      /\ pc' = "next"
      /\ stage' = 0
      /\ promiseState' = "pending"
      /\ UNCHANGED <<started, inFlight, settledOk, chainValue, failVars, promiseValue,
                     executorLog, config, extRegs, uncaught, invoked, reportVars,
                     loaderVars, envVars, sideVars>>

\* The closure installed at lines 465-467: returns the promise of the chain.
RunMemo ==
  /\ runReturns' = Append(runReturns, promises)
  /\ UNCHANGED <<runReplaced, promises, bufferResets, chainVars, failVars, promVars,
                 earlyEvents, executorLog, config, bridgeVars, reportVars,
                 loaderVars, envVars, sideVars>>

\* run() without the replacement of this.run: every call runs the body.
RunCall_NotMemoized ==
  /\ ~exited
  /\ Len(runReturns) < MaxRunCalls
  /\ RunBody

\* A call of run().
RunCall ==
  /\ ~exited
  /\ Len(runReturns) < MaxRunCalls
  /\ IF runReplaced THEN RunMemo ELSE RunBody

\* The first call of run().
FirstRunCall == ~runReplaced /\ RunCall

\* The chain with suite resolution and main-module population exchanged.
NextStage_Exchanged(i) ==
  CASE i = 2 -> 4
    [] i = 4 -> 3
    [] i = 3 -> 5
    [] OTHER -> i + 1

\* The stage the chain of lines 450-456 starts after stage i has resolved:
\* getConfig, swapLoader, resolveSuites, populateMainModule,
\* loadExecutorWithLoader, runExecutor, each a .then of the one before.
NextStage(i) == i + 1

\* The chain calls the callback of stage i; throwsNow: the callback throws
\* instead of returning a promise, so the stage is never in progress.
StageStarts(i, throwsNow) ==
  /\ ~exited
  /\ pc = "next"
  /\ i = NextStage(stage)
  /\ i \in 1..NumStages
  /\ stage' = i
  /\ started' = Append(started, Stages[i])
  /\ inFlight' = IF throwsNow THEN inFlight ELSE inFlight \cup {i}

\* getConfig(): self.getConfig(args) is called and the configuration module is
\* requested (lines 376-380, 128-139).
GetConfigStart ==
  /\ StageStarts(1, FALSE)
  /\ pc' = "inStage"
  /\ UNCHANGED <<settledOk, chainValue, failVars, runVars, promVars, earlyEvents,
                 executorLog, config, bridgeVars, reportVars, loaderVars, envVars, sideVars>>

\* The two deprecation events in the other order.
DeprecationEvents_UseLoaderFirst(depLoader, depUseLoader) ==
  (IF depUseLoader THEN <<DepUseLoaderEvent>> ELSE <<>>) \o
  (IF depLoader THEN <<DepLoaderEvent>> ELSE <<>>)

\* The deprecation events the then-callback of getConfig buffers (lines
\* 143-159): one for `loader`, then one for `useLoader`.
DeprecationEvents(depLoader, depUseLoader) ==
  (IF depLoader THEN <<DepLoaderEvent>> ELSE <<>>) \o
  (IF depUseLoader THEN <<DepUseLoaderEvent>> ELSE <<>>)

\* The configuration module has loaded and the then-callback of getConfig
\* (lines 139-262) returns the configuration; ref is config.loaders[host].
GetConfigResolve(depLoader, depUseLoader, ref) ==
  /\ ~exited
  /\ pc = "inStage"
  /\ stage = 1
  /\ earlyEvents' = earlyEvents \o DeprecationEvents(depLoader, depUseLoader)
  /\ config' = [defined |-> TRUE, loaderRef |-> ref]
  /\ ChainContinues(1, Undef)
  /\ UNCHANGED <<runVars, promVars, executorLog, bridgeVars, reportVars,
                 loaderVars, envVars, sideVars>>

\* getConfig fails: the module does not load (no event is buffered), or the
\* then-callback throws at line 251 after buffering its events.
GetConfigFail(e, depLoader, depUseLoader) ==
  /\ ~exited
  /\ pc = "inStage"
  /\ stage = 1
  /\ earlyEvents' = earlyEvents \o DeprecationEvents(depLoader, depUseLoader)
  /\ ChainRejects(1, e)
  /\ UNCHANGED <<runVars, promVars, executorLog, config, bridgeVars, reportVars,
                 loaderVars, envVars, sideVars>>

\* swapLoader(): self.swapLoader(config.basePath, config.loaders,
\* config.loaderOptions) (lines 446-448); loaderOptions is never absent here,
\* line 161 has set it.
SwapLoaderStart(throws) ==
  /\ StageStarts(2, FALSE)
  /\ swap.phase \in {"idle", "done", "rejected"}
  /\ pc' = "inStage"
  /\ SwapBegin(config.loaderRef, TRUE, "pipeline", throws)
  /\ UNCHANGED <<settledOk, chainValue, failVars, runVars, promVars, earlyEvents,
                 executorLog, config, bridgeVars, reportVars, swapCalls, envVars, sideVars>>

(* ------------------------------ getConfig ------------------------------ *)
\* JavaScript values of the configuration: an absent or null property, a
\* string (the sequence of its characters or, for a path, of its segments and
\* separators), a number, the boolean true, NaN.
Unset == [t |-> "unset", s |-> <<>>, n |-> 0]
Str(s) == [t |-> "str", s |-> s, n |-> 0]
Num(n) == [t |-> "num", s |-> <<>>, n |-> n]
True == [t |-> "bool", s |-> <<>>, n |-> 1]
NaN == [t |-> "nan", s |-> <<>>, n |-> 0]

\* A property that may hold an options object: absent, a value that is not an
\* object, or an object with a baseUrl property.
NoObj == [kind |-> "absent", baseUrl |-> Unset]
NonObj == [kind |-> "other", baseUrl |-> Unset]
Obj(b) == [kind |-> "obj", baseUrl |-> b]

Digits == <<"0", "1", "2", "3", "4", "5", "6", "7", "8", "9">>

RECURSIVE Decimal(_)
\* the number a sequence of digits denotes
Decimal(s) ==
  IF s = <<>> THEN 0
  ELSE Decimal(SubSeq(s, 1, Len(s) - 1)) * 10
       + (CHOOSE d \in 0..9 : Digits[d + 1] = s[Len(s)])

RECURSIVE Trim(_)
\* s without its leading and trailing white space
Trim(s) ==
  IF s = <<>> THEN s
  ELSE IF Head(s) = " " THEN Trim(Tail(s))
  ELSE IF s[Len(s)] = " " THEN Trim(SubSeq(s, 1, Len(s) - 1))
  ELSE s

\* Number(s) for a string s: white space is trimmed, the empty string is 0, a
\* sequence of digits is its decimal value, anything else is NaN.
StringToNumber(s) ==
  LET t == Trim(s)
  IN  IF t = <<>> THEN Num(0)
      ELSE IF \A k \in 1..Len(t) : \E d \in 1..10 : Digits[d] = t[k]
      THEN Num(Decimal(t))
      ELSE NaN

RECURSIVE DecimalText(_)
\* the digits of a natural number
DecimalText(n) ==
  IF n < 10 THEN <<Digits[n + 1]>>
  ELSE Append(DecimalText(n \div 10), Digits[(n % 10) + 1])

\* '' + v for a number or the boolean true.
ToText(v) == IF v.t = "num" THEN DecimalText(v.n) ELSE <<"true">>

\* config.proxyPort after lines 246-254, NaN standing for the throw of line
\* 251: the default for an absent port, Number(port) for a string unless
\* isNaN(port), any other value as it is.
ProxyPort(v) ==
  IF v.t = "unset" THEN Num(9000)
  ELSE IF v.t = "str"
  THEN (IF StringToNumber(v.s) = NaN THEN NaN ELSE StringToNumber(v.s))
  ELSE v

\* config.proxyUrl after lines 257-259.
ProxyUrl(url, port) ==
  IF url.t = "unset" THEN Str(<<"http://localhost:">> \o ToText(port) \o <<"/">>)
  ELSE url

RECURSIVE NormalizePath(_)
\* util.normalizePath(path): empty and "." segments are dropped and
\* "name/.." pairs resolved; a leading and a trailing separator stay.
NormalizePath(p) ==
  IF Len(p) < 2 THEN p
  ELSE IF p[1] = "/" /\ p[2] = "/" THEN NormalizePath(Tail(p))
  ELSE IF p[1] = "." /\ p[2] = "/" THEN NormalizePath(Tail(Tail(p)))
  ELSE IF p[1] = "/" /\ p[2] = "." /\ (Len(p) = 2 \/ p[3] = "/")
       THEN NormalizePath(<<"/">> \o Tail(Tail(Tail(p))))
  ELSE IF Len(p) >= 3 /\ p[1] \notin {"/", ".", ".."} /\ p[2] = "/" /\ p[3] = ".."
       THEN NormalizePath(Tail(Tail(Tail(Tail(p)))))
  ELSE <<p[1]>> \o NormalizePath(Tail(p))

\* path with a '/' appended unless it ends with one (lines 171-173, 204-206).
WithSlash(p) == IF p # <<>> /\ p[Len(p)] = "/" THEN p ELSE Append(p, "/")

\* process.cwd() on a headless host; on a browser host the directory three
\* levels above client.html (lines 192-195).
DefaultBasePath == IF host = "node" THEN <<"/", "cwd">> ELSE <<"/">>

\* config.basePath after lines 163-173 (headless) and 192-206 (browser).
BasePath(v) ==
  IF host = "node"
  THEN WithSlash(NormalizePath(IF v.t = "unset" THEN DefaultBasePath ELSE v.s))
  ELSE WithSlash(IF v.t = "unset" THEN DefaultBasePath
                 ELSE IF v.s # <<>> /\ v.s[1] \in {".", ".."}
                 THEN NormalizePath(DefaultBasePath \o v.s)
                 ELSE v.s)

\* isAbsoluteBaseUrl(url): path.isAbsolute on a headless host (line 176), the
\* test for a scheme or a leading "//" on a browser host (lines 209-212).
IsAbsoluteBaseUrl(p) ==
  IF host = "node" THEN p # <<>> /\ p[1] = "/"
  ELSE \/ p # <<>> /\ p[1] \in {"http:"}
       \/ Len(p) >= 3 /\ p[1] = "/" /\ p[2] = "/" /\ p[3] \notin {"/", ".", ".."}

\* config.loaderOptions.baseUrl after lines 219-226.
BaseUrl(url, basePath) ==
  IF url.t = "unset" \/ url.s = <<>> THEN basePath
  ELSE IF ~IsAbsoluteBaseUrl(url.s) THEN NormalizePath(basePath \o url.s)
  ELSE url.s

\* The configurations lang.deepMixin(config, args) may yield (line 141), as
\* far as the callback reads them.
BasePathInputs ==
  {Unset, Str(<<"/", "app", "/">>), Str(<<"/", "app">>), Str(<<"app">>)}
  \cup (IF host = "browser" THEN {Str(<<".", "/", "app">>)} ELSE {})

BaseUrlInputs ==
  {Unset, Str(<<"lib">>), Str(<<"/", "lib">>)}
  \cup (IF host = "browser" THEN {Str(<<"http:", "/", "/", "h", "/", "lib">>)} ELSE {})

ProxyPortInputs ==
  {Unset, Num(9001), True, Str(<<"9", "0", "0", "1">>),
   Str(<<"a", "b", "c">>), Str(<<>>), Str(<<" ">>)}

ConfigInputs ==
  [loader : {NoObj, NonObj, Obj(Unset), Obj(Str(<<"lib">>))},
   loaderOptions : {NoObj} \cup {Obj(b) : b \in BaseUrlInputs},
   useLoader : {NoObj, Obj(Unset)},
   basePath : BasePathInputs,
   proxyPort : ProxyPortInputs,
   proxyUrl : {Unset, Str(<<"http://proxy/">>)}]

\* A configuration that sets none of these properties.
DefaultConfig ==
  [loader |-> NoObj, loaderOptions |-> NoObj, useLoader |-> NoObj,
   basePath |-> Unset, proxyPort |-> Unset, proxyUrl |-> Unset]

NoConfig ==
  [basePath |-> <<>>, baseUrl |-> <<>>, loaderOptionsIs |-> "none",
   loadersIs |-> "none", proxyPort |-> Unset, proxyUrl |-> Unset]

Pending == [state |-> "pending", error |-> "none", events |-> <<>>, config |-> NoConfig]

\* The then-callback of getConfig (lines 139-262) applied to the merged
\* configuration c: the events it buffers, and the configuration it returns or
\* the error it throws.  loaderOptionsIs and loadersIs name the object the
\* property refers to afterwards.
ConfigCallback(c) ==
  LET depLoader    == c.loader.kind = "obj"
      depUseLoader == c.useLoader.kind = "obj"
      given        == IF depLoader THEN c.loader ELSE c.loaderOptions
      basePath     == BasePath(c.basePath)
      port         == ProxyPort(c.proxyPort)
  IN  [state  |-> IF port = NaN THEN "rejected" ELSE "resolved",
       error  |-> IF port = NaN THEN "proxyPort must be a number" ELSE "none",
       events |-> DeprecationEvents(depLoader, depUseLoader),
       config |-> IF port = NaN THEN NoConfig
                  ELSE [basePath |-> basePath,
                        baseUrl |-> BaseUrl(given.baseUrl, basePath),
                        loaderOptionsIs |->
                          IF depLoader THEN "loader"
                          ELSE IF given.kind = "obj" THEN "loaderOptions" ELSE "new",
                        loadersIs |-> IF depUseLoader THEN "useLoader" ELSE "loaders",
                        proxyPort |-> port,
                        proxyUrl |-> ProxyUrl(c.proxyUrl, port)]]

\* Values of args.config: absent, an id util.assertSafeModuleId rejects, ids of
\* configuration modules.
ModuleIds == {"none", "../unsafe", "cfgA", "cfgB"}

\* The body of getConfig (lines 128-268): throws without a safe args.config,
\* otherwise requests the module and replaces this.getConfig.
GetConfigBody(moduleId) ==
  IF moduleId \in {"none", "../unsafe"}
  THEN /\ getConfigLog' = Append(getConfigLog, [config |-> moduleId, ret |-> 0])
       /\ UNCHANGED <<getConfigReplaced, moduleLoads>>
  ELSE /\ moduleLoads' = moduleLoads + 1
       /\ getConfigLog' =
            Append(getConfigLog, [config |-> moduleId, ret |-> moduleLoads + 1])
       /\ getConfigReplaced' = TRUE

\* getConfig without the replacement of this.getConfig.
GetConfigCall_NotMemoized(moduleId) ==
  /\ runReplaced
  /\ Len(getConfigLog) < MaxGetConfigCalls
  /\ GetConfigBody(moduleId)
  /\ UNCHANGED <<callbackRuns, mergedConfig, resolution, mergeVars, suiteVars,
                 envVars, webDriverVars, parseVars, pipeVars, bridgeVars, reportVars, loaderVars>>

\* A call of getConfig(args) made by the chain of run() or after it; ret is
\* the promise the call returns (0: it throws).  The closure of lines 264-266
\* returns the promise of the call that installed it.
GetConfigCall(moduleId) ==
  /\ runReplaced
  /\ Len(getConfigLog) < MaxGetConfigCalls
  /\ IF getConfigReplaced
     THEN /\ getConfigLog' =
               Append(getConfigLog, [config |-> moduleId, ret |-> moduleLoads])
          /\ UNCHANGED <<getConfigReplaced, moduleLoads>>
     ELSE GetConfigBody(moduleId)
  /\ UNCHANGED <<callbackRuns, mergedConfig, resolution, mergeVars, suiteVars,
                 envVars, webDriverVars, parseVars, pipeVars, bridgeVars, reportVars, loaderVars>>

\* The configuration module has loaded: the then-callback runs once for the
\* load (lines 139-262).
GetConfigLoaded ==
  /\ callbackRuns < moduleLoads
  /\ callbackRuns' = callbackRuns + 1
  /\ resolution' = ConfigCallback(mergedConfig)
  /\ earlyEvents' = earlyEvents \o resolution'.events
  /\ UNCHANGED <<getConfigReplaced, getConfigLog, moduleLoads, mergedConfig,
                 mergeVars, suiteVars, envVars, webDriverVars, parseVars, runVars, chainVars, failVars,
                 promVars, executorLog, config, bridgeVars, reportVars, loaderVars>>

\* util.getModule rejects: the then-callback does not run.
GetConfigLoadFails ==
  /\ callbackRuns < moduleLoads
  /\ callbackRuns' = callbackRuns + 1
  /\ resolution' = [Pending EXCEPT !.state = "rejected", !.error = "module"]
  /\ UNCHANGED <<getConfigReplaced, getConfigLog, moduleLoads, mergedConfig,
                 mergeVars, suiteVars, envVars, webDriverVars, parseVars, pipeVars, bridgeVars, reportVars,
                 loaderVars>>

(* ------------------------------ parseArgs ------------------------------ *)
\* Raw arguments, as sequences of characters: --a=1, a=2, -b=1, --a, b, a=1=2.
ArgTokens ==
  {<<"-", "-", "a", "=", "1">>, <<"a", "=", "2">>, <<"-", "b", "=", "1">>,
   <<"-", "-", "a">>, <<"b">>, <<"a", "=", "1", "=", "2">>}

RECURSIVE SplitOn(_, _)
\* str.split(c): the parts of str between the occurrences of c.
SplitOn(str, c) ==
  IF str = <<>> THEN <<<<>>>>
  ELSE LET rest == SplitOn(Tail(str), c)
       IN  IF Head(str) = c THEN <<<<>>>> \o rest
           ELSE <<<<Head(str)>> \o Head(rest)>> \o Tail(rest)

\* parts[0].replace(/^--?/, '') (line 24).
ArgKey(arg) ==
  LET k == SplitOn(arg, "=")[1]
  IN  IF Len(k) >= 2 /\ k[1] = "-" /\ k[2] = "-" THEN Tail(Tail(k))
      ELSE IF Len(k) >= 1 /\ k[1] = "-" THEN Tail(k)
      ELSE k

\* The value of an argument (lines 28-41): true without '=', otherwise
\* decode(parts[1]), decode being the identity of fromCommandLine.
ArgValue(arg) ==
  LET parts == SplitOn(arg, "=")
  IN  IF Len(parts) < 2 THEN True ELSE Str(parts[2])

\* A repeated key keeps only its last value.
AddArg_Overwrites(args, arg) ==
  [k \in DOMAIN args \cup {ArgKey(arg)} |->
     IF k = ArgKey(arg) THEN [arr |-> FALSE, vals |-> <<ArgValue(arg)>>] ELSE args[k]]

\* Lines 44-53: a key that is already in args gets the value pushed to its
\* array, which is made of the value it had if that was not an array; a new
\* key gets the value.  arr: the property holds an array of vals; otherwise it
\* holds the one value in vals.
AddArg(args, arg) ==
  [k \in DOMAIN args \cup {ArgKey(arg)} |->
     IF k # ArgKey(arg) THEN args[k]
     ELSE IF k \in DOMAIN args
     THEN [arr |-> TRUE, vals |-> Append(args[k].vals, ArgValue(arg))]
     ELSE [arr |-> FALSE, vals |-> <<ArgValue(arg)>>]]

RECURSIVE ParseArguments(_)
\* parseArguments(rawArgs, decode) (lines 19-57): forEach over the arguments,
\* starting from the empty object.
ParseArguments(raw) ==
  IF raw = <<>> THEN [k \in {} |-> [arr |-> FALSE, vals |-> <<>>]]
  ELSE AddArg(ParseArguments(SubSeq(raw, 1, Len(raw) - 1)), raw[Len(raw)])

\* fromCommandLine(rawArgs) (lines 1-5).
FromCommandLine ==
  /\ ~parsedArgs.done
  /\ parsedArgs' = [done |-> TRUE, args |-> ParseArguments(rawArgs)]
  /\ UNCHANGED <<rawArgs, mergeVars, suiteVars, getConfigVars, envVars, webDriverVars, pipeVars,
                 bridgeVars, reportVars, loaderVars>>

(* --------------------------- resolveSuites ----------------------------- *)
\* The glob-style module ids config.suites may hold.
GlobIds == {"tests/*"}

\* util.isGlobModuleId(id) (line 412).
IsGlobModuleId(id) == id \in GlobIds

\* The ids the glob tests/* matches.
MatchedIds == <<"tests/a", "tests/b">>

\* util.resolveModuleIds(ids) (lines 406-407): every glob-style id is replaced
\* by the ids it matches.
RECURSIVE ResolveModuleIds(_)
ResolveModuleIds(ids) ==
  IF ids = <<>> THEN <<>>
  ELSE (IF IsGlobModuleId(Head(ids)) THEN MatchedIds ELSE <<Head(ids)>>)
       \o ResolveModuleIds(Tail(ids))

\* The values of config.suites the configuration may resolve to.
SuiteInputs == {<<>>, <<"tests/a">>, <<"tests/*">>, <<"tests/a", "tests/*">>}

\* Status codes and bodies of the response of intern/__resolveSuites__: an
\* empty body, the JSON text of an array of ids, text that is not JSON.
Statuses == {200, 404, 500}
EmptyBody == [kind |-> "empty", value |-> <<>>]
JsonBody(ids) == [kind |-> "json", value |-> ids]
GarbageBody == [kind |-> "garbage", value |-> <<>>]
Bodies == {EmptyBody, GarbageBody, JsonBody(<<"tests/a">>), JsonBody(MatchedIds)}
NoResponse == [status |-> 0, body |-> EmptyBody]

\* JSON.parse(response.data) (line 420): the value, or a SyntaxError.
JsonParse(body) ==
  IF body.kind = "json" THEN [ok |-> TRUE, value |-> body.value]
  ELSE [ok |-> FALSE, value |-> <<>>]

\* resolveSuites asking the proxy on every browser host.
NeedsRequest_Always(ids) == host = "browser"

\* The test of line 412: a browser host asks the proxy only if some entry of
\* config.suites is glob-style.
NeedsRequest(ids) ==
  host = "browser" /\ \E k \in 1..Len(ids) : IsGlobModuleId(ids[k])

\* The test of line 419 without the test of the body.
ResponseOk_StatusOnly(status, body) == status = 200

\* The test of line 419: status 200 and a non-empty body.
ResponseOk(status, body) == status = 200 /\ body # EmptyBody

\* resolveSuites(loader) is called (lines 401-431): a headless host expands the
\* globs itself, a browser host with a glob-style suite sends one GET to the
\* proxy, any other call does nothing.
ResolveSuitesStart ==
  /\ StageStarts(3, FALSE)
  /\ pc' = "inStage"
  /\ IF host = "node"
     THEN /\ suites' = ResolveModuleIds(suites)
          /\ suitesOutcome' = "expanded"
          /\ UNCHANGED requests
     ELSE IF NeedsRequest(suites)
     THEN /\ requests' = Append(requests, [method |-> "GET", suites |-> suites])
          /\ suitesOutcome' = "requested"
          /\ UNCHANGED suites
     ELSE /\ suitesOutcome' = "skipped"
          /\ UNCHANGED <<suites, requests>>
  /\ UNCHANGED <<settledOk, chainValue, failVars, runVars, promVars, earlyEvents,
                 executorLog, config, bridgeVars, reportVars, loaderVars, envVars, webDriverVars, parseVars,
                 mergeVars, getConfigVars, cfgSuites, response>>

\* The promise of lines 404-409 or 429 has resolved: the callback of lines
\* 433-436 passes the loader on.
ResolveSuitesPassThrough ==
  /\ ~exited
  /\ pc = "inStage"
  /\ stage = 3
  /\ suitesOutcome \in {"expanded", "skipped"}
  /\ ChainContinues(3, chainValue)
  /\ UNCHANGED <<runVars, promVars, earlyEvents, executorLog, config, bridgeVars,
                 reportVars, loaderVars, envVars, sideVars>>

\* The proxy answers (lines 417-426): an acceptable response replaces
\* config.suites by the parsed body and the loader is passed on; JSON.parse
\* may throw; any other response throws the suite-resolution error.
ResolveSuitesResponse(status, body) ==
  /\ ~exited
  /\ pc = "inStage"
  /\ stage = 3
  /\ suitesOutcome = "requested"
  /\ response' = [status |-> status, body |-> body]
  /\ IF ResponseOk(status, body)
     THEN IF JsonParse(body).ok
          THEN /\ suites' = JsonParse(body).value
               /\ suitesOutcome' = "replaced"
               /\ ChainContinues(3, chainValue)
          ELSE /\ suitesOutcome' = "parseError"
               /\ ChainRejects(3, "Eplain")
               /\ UNCHANGED suites
     ELSE /\ suitesOutcome' = "resolutionError"
          /\ ChainRejects(3, "Eplain")
          /\ UNCHANGED suites
  /\ UNCHANGED <<runVars, promVars, earlyEvents, executorLog, config, bridgeVars,
                 reportVars, loaderVars, envVars, webDriverVars, parseVars, mergeVars, getConfigVars, cfgSuites,
                 requests>>

\* The request itself fails (the proxy cannot be reached): its promise rejects
\* and the callback of lines 418-426 does not run.
ResolveSuitesRequestFails ==
  /\ ~exited
  /\ pc = "inStage"
  /\ stage = 3
  /\ suitesOutcome = "requested"
  /\ suitesOutcome' = "requestError"
  /\ ChainRejects(3, "Eplain")
  /\ UNCHANGED <<runVars, promVars, earlyEvents, executorLog, config, bridgeVars,
                 reportVars, loaderVars, envVars, webDriverVars, parseVars, mergeVars, getConfigVars, cfgSuites,
                 suites, requests, response>>

\* populateMainModule or loadExecutorWithLoader is called with the loader the
\* previous stage passed on (lines 382-396, 305-310).
MiddleStageStart(i) ==
  /\ i \in 4..5
  /\ StageStarts(i, FALSE)
  /\ pc' = "inStage"
  /\ UNCHANGED <<settledOk, chainValue, failVars, runVars, promVars, earlyEvents,
                 executorLog, config, bridgeVars, reportVars, loaderVars, envVars, sideVars>>

\* populateMainModule resolving with the global require instead of the loader
\* it was given.
MiddleStageResolve_GlobalRequire(i) ==
  /\ ~exited
  /\ i \in 4..5
  /\ pc = "inStage"
  /\ stage = i
  /\ ChainContinues(i, IF i = 5 THEN "ExecutorCtor" ELSE globalRequire)
  /\ UNCHANGED <<runVars, promVars, earlyEvents, executorLog, config, bridgeVars,
                 reportVars, loaderVars, envVars, sideVars>>

\* populateMainModule passes the loader through (line 394);
\* loadExecutorWithLoader resolves with the executor constructor.
MiddleStageResolve(i) ==
  /\ ~exited
  /\ i \in 4..5
  /\ pc = "inStage"
  /\ stage = i
  /\ ChainContinues(i, IF i = 5 THEN "ExecutorCtor" ELSE chainValue)
  /\ UNCHANGED <<runVars, promVars, earlyEvents, executorLog, config, bridgeVars,
                 reportVars, loaderVars, envVars, sideVars>>

\* One of the stages 4..6 rejects with e.
StageFail(i, e) ==
  /\ ~exited
  /\ i \in 4..NumStages
  /\ pc = "inStage"
  /\ stage = i
  /\ ChainRejects(i, e)
  /\ UNCHANGED <<runVars, promVars, earlyEvents, executorLog, config, bridgeVars,
                 reportVars, loaderVars, envVars, sideVars>>

RECURSIVE Emits(_)
Emits(events) ==
  IF events = <<>> THEN <<>>
  ELSE <<[op |-> "emit", ev |-> Head(events)]>> \o Emits(Tail(events))

\* runExecutor with the executor started before the replay.
RunExecutorLog_RunFirst(events) ==
  <<[op |-> "construct", ev |-> "-"], [op |-> "run", ev |-> "-"]>> \o Emits(events)

\* What runExecutor does to the executor (lines 439-443): constructs it,
\* emits every buffered event into its reporter manager with forEach, then
\* calls its run().
RunExecutorLog(events) ==
  <<[op |-> "construct", ev |-> "-"]>> \o Emits(events) \o <<[op |-> "run", ev |-> "-"]>>

\* The buffer runExecutor leaves behind: it does not touch this._earlyEvents.
BufferAfterReplay(events) == events

\* runExecutor(ExecutorConstructor) (lines 438-444).
RunExecutorStart ==
  /\ StageStarts(NumStages, FALSE)
  /\ pc' = "inStage"
  /\ executorLog' = executorLog \o RunExecutorLog(earlyEvents)
  /\ earlyEvents' = BufferAfterReplay(earlyEvents)
  /\ UNCHANGED <<settledOk, chainValue, failVars, runVars, promVars, config,
                 bridgeVars, reportVars, loaderVars, envVars, sideVars>>

\* The executor constructor throws: nothing is replayed, the stage rejects.
RunExecutorThrows(e) ==
  /\ StageStarts(NumStages, TRUE)
  /\ pc' = "rejecting"
  /\ failedStage' = NumStages
  /\ failedError' = e
  /\ UNCHANGED <<settledOk, chainValue, catchOutcome, runVars, promVars,
                 earlyEvents, executorLog, config, bridgeVars, reportVars,
                 loaderVars, envVars, sideVars>>

\* executor.run() resolves: the catch callback is skipped and the promise of
\* run() resolves with the same value.
ExecutorResolve ==
  /\ ~exited
  /\ pc = "inStage"
  /\ stage = NumStages
  /\ pc' = "settled"
  /\ inFlight' = inFlight \ {NumStages}
  /\ settledOk' = Append(settledOk, NumStages)
  /\ promiseState' = "resolved"
  /\ promiseValue' = RunResult
  /\ UNCHANGED <<stage, started, chainValue, failVars, runVars, earlyEvents,
                 executorLog, config, bridgeVars, reportVars, loaderVars, envVars, sideVars>>

\* The catch callback without its rethrow: the chain's promise resolves.
CatchSettles_Swallows(e, threw) ==
  [state |-> "resolved", value |-> Undef]

\* How the catch callback settles the promise of run() (lines 457-463): it
\* rethrows the error it caught, unless the handler it called threw first.
CatchSettles(e, threw) ==
  [state |-> "rejected", value |-> IF threw THEN HandlerError ELSE e]

\* The catch callback calling the handler for every error.
HandlerDue_Always(e) == TRUE

\* The test of line 458: the handler is called for an error that does not
\* carry the `reported` marker.
HandlerDue(e) == ~reported[e]

\* The catch callback of the chain (lines 457-463): calls the error handler if
\* the error does not carry the `reported` marker, then rethrows.
CatchCallback ==
  /\ ~exited
  /\ pc = "rejecting"
  /\ LET e == failedError
         c == IF HandlerDue(e)
              THEN InvokeHandler(EarlyHandler, e, ReportState, "catch")
              ELSE [r |-> ReportState, threw |-> FALSE]
     IN  /\ SetReport(c.r)
         /\ IF c.r.exited
            THEN /\ catchOutcome' = "exited"
                 /\ pc' = "dead"
                 /\ UNCHANGED promVars
            ELSE /\ pc' = "settled"
                 /\ promiseState' = CatchSettles(e, c.threw).state
                 /\ promiseValue' = CatchSettles(e, c.threw).value
                 /\ catchOutcome' = IF reported[e] THEN "skipped"
                                    ELSE IF c.threw THEN "threw" ELSE "returned"
  /\ UNCHANGED <<stage, started, inFlight, settledOk, chainValue, failedStage,
                 failedError, runVars, earlyEvents, executorLog, config,
                 registryVars, uncaught, loaderVars, envVars, sideVars>>

(* ------------------------- WebDriver reporter -------------------------- *)
\* The nodes of the document are numbered; NoNode is null.  A page has the
\* document, its <html> element and, in it, document.body.
NoNode == 0
DocumentNode == 1
HtmlNode == 2
BodyNode == 3
InitialDom ==
  <<[tag |-> "#document", parent |-> NoNode],
    [tag |-> "html", parent |-> DocumentNode],
    [tag |-> "body", parent |-> HtmlNode]>>

\* node.parentNode in the document d.
ParentNode(d, node) == d[node].parent

\* The state the constructor leaves (lines 14-30): writeHtml is true unless
\* config.writeHtml is false, and suiteNode is document.body when it is true.
WebDriver ==
  /\ writeHtml \in BOOLEAN
  /\ suiteNode = IF writeHtml THEN BodyNode ELSE NoNode
  /\ dom = InitialDom
  /\ openSuites = <<>>
  /\ sentEvents = <<>>

\* The document after lines 59-73 with this.suiteNode = old: a new <ol>,
\* appended to document.body itself, or else wrapped with a header <div>
\* (holding the text of the suite's name) in a new <li> appended to old.
\* The new <ol> is node Len(d) + 1.
AppendSuiteList(d, old) ==
  LET ol == Len(d) + 1
      li == Len(d) + 2
      header == Len(d) + 3
  IN  IF old = BodyNode
      THEN Append(d, [tag |-> "ol", parent |-> BodyNode])
      ELSE d \o <<[tag |-> "ol", parent |-> li],
                  [tag |-> "li", parent |-> old],
                  [tag |-> "div", parent |-> li],
                  [tag |-> "#text", parent |-> header]>>

\* this.suiteNode after line 51, suiteNode.parentNode.parentNode ||
\* document.body, in the document d with this.suiteNode = node.
EnclosingNode(d, node) ==
  LET outer == ParentNode(d, ParentNode(d, node))
  IN  IF outer = NoNode THEN BodyNode ELSE outer

\* suiteStart(suite) (lines 57-79).
suiteStart ==
  /\ Len(sentEvents) < MaxSuiteEvents
  /\ IF writeHtml
     THEN /\ dom' = AppendSuiteList(dom, suiteNode)
          /\ suiteNode' = Len(dom) + 1
     ELSE UNCHANGED <<dom, suiteNode>>
  /\ openSuites' = Append(openSuites, suiteNode')
  /\ sentEvents' = Append(sentEvents, "suiteStart")
  /\ UNCHANGED <<writeHtml, envVars, pipeVars, bridgeVars, reportVars, loaderVars,
                 mergeVars, suiteVars, getConfigVars, parseVars>>

\* suiteEnd(suite) (lines 49-55), for the innermost suite that has started.
suiteEnd ==
  /\ Len(sentEvents) < MaxSuiteEvents
  /\ openSuites # <<>>
  /\ suiteNode' = IF writeHtml THEN EnclosingNode(dom, suiteNode) ELSE suiteNode
  /\ openSuites' = SubSeq(openSuites, 1, Len(openSuites) - 1)
  /\ sentEvents' = Append(sentEvents, "suiteEnd")
  /\ UNCHANGED <<writeHtml, dom, envVars, pipeVars, bridgeVars, reportVars, loaderVars,
                 mergeVars, suiteVars, getConfigVars, parseVars>>

(* ----------------------- the host's error channel ---------------------- *)
\* registerErrorHandler(h) called by code other than run() (lines 315-341).
RegisterExternal(h) ==
  /\ ~exited
  /\ extRegs < MaxRegs
  /\ LET reg == RegisterErrorHandler(h, Registry, earlyHandle)
     IN  /\ listeners' = reg.listeners
         /\ handles' = reg.handles
  /\ earlyHandle' = 0
  /\ extRegs' = extRegs + 1
  /\ UNCHANGED <<uncaught, invoked, pipeVars, reportVars, loaderVars, envVars, sideVars>>

\* remove() called on the handle k that such a registration returned.
RemoveExternal(k) ==
  /\ ~exited
  /\ k \in 1..Len(handles)
  /\ handles[k].h # EarlyHandler
  /\ LET b == HandleRemove(k, Registry)
     IN  /\ listeners' = b.listeners
         /\ handles' = b.handles
  /\ UNCHANGED <<earlyHandle, extRegs, uncaught, invoked, pipeVars, reportVars,
                 loaderVars, envVars, sideVars>>

\* The host raises the fatal error e on its error channel (window.onerror,
\* 'uncaughtException'): the installed listeners are called.  A node process
\* without a listener dies of the exception.
UncaughtError(e) ==
  /\ ~exited
  /\ uncaught < MaxUncaught
  /\ uncaught' = uncaught + 1
  /\ LET c == Dispatch(ChannelOrder(listeners), e, ReportState)
     IN  SetReport(IF host = "node" /\ listeners = <<>>
                   THEN [c.r EXCEPT !.exited = TRUE]
                   ELSE c.r)
  /\ UNCHANGED <<registryVars, pipeVars, loaderVars, envVars, sideVars>>

(* --------------------------- specifications ---------------------------- *)
\* The page or process the program runs in, as far as error reporting reads it.
InitReportEnv ==
  /\ remotePath \in (IF host = "browser" THEN BOOLEAN ELSE {FALSE})
  /\ session \in (IF remotePath THEN {"none", "abc123"} ELSE {"none"})
  /\ reported = [e \in Errors |-> e = "Ereported"]

\* The loader the configuration may name, and node's module cache.
InitLoaderEnv ==
  /\ loaderKind \in {"exports", "global"}
  /\ localPath \in (IF host = "node" THEN BOOLEAN ELSE {FALSE})
  /\ moduleCache \in (IF host = "node"
                      THEN {{}} \cup {{ResolvedPath(r)} : r \in LoaderRefs}
                      ELSE {{}})

\* A page outside the remote-session directory.
PlainReportEnv ==
  /\ remotePath = FALSE
  /\ session = "none"
  /\ reported = [e \in Errors |-> e = "Ereported"]

\* No loader is ever requested.
PlainLoaderEnv ==
  /\ loaderKind = "global"
  /\ localPath = FALSE
  /\ moduleCache = {}

\* swapLoader's then-callback is not followed into the alias maps.
NoStarMaps ==
  /\ defaultStarMap = AbsentStar
  /\ userStarMap = AbsentStar
  /\ loaderOptionsArg = AbsentStar
  /\ setConfigArgs = <<>>

\* getConfig has not been called; the configuration sets none of the
\* properties its callback reads.
NoGetConfig ==
  /\ getConfigReplaced = FALSE
  /\ getConfigLog = <<>>
  /\ moduleLoads = 0
  /\ callbackRuns = 0
  /\ resolution = Pending

\* No argument list is parsed.
NoParse ==
  /\ rawArgs = <<>>
  /\ parsedArgs = [done |-> FALSE, args |-> <<>>]

\* No WebDriver reporter writes into the document.
NoWebDriver ==
  /\ writeHtml = FALSE
  /\ suiteNode = NoNode
  /\ dom = InitialDom
  /\ openSuites = <<>>
  /\ sentEvents = <<>>

InitSide ==
  /\ NoStarMaps
  /\ NoGetConfig
  /\ mergedConfig = DefaultConfig
  /\ NoParse
  /\ NoWebDriver

\* The suites the configuration names.
InitSuites ==
  /\ cfgSuites \in SuiteInputs
  /\ suites = cfgSuites
  /\ requests = <<>>
  /\ response = NoResponse
  /\ suitesOutcome = "none"

\* A configuration without suites.
PlainSuites ==
  /\ cfgSuites = <<>>
  /\ suites = cfgSuites
  /\ requests = <<>>
  /\ response = NoResponse
  /\ suitesOutcome = "none"

InitState ==
  /\ runReplaced = FALSE
  /\ runReturns = <<>>
  /\ promises = 0
  /\ bufferResets = 0
  /\ pc = "idle"
  /\ stage = 0
  /\ started = <<>>
  /\ inFlight = {}
  /\ settledOk = <<>>
  /\ chainValue = Undef
  /\ failedStage = 0
  /\ failedError = "none"
  /\ catchOutcome = "none"
  /\ promiseState = "none"
  /\ promiseValue = "none"
  /\ earlyEvents = <<>>
  /\ executorLog = <<>>
  /\ config = [defined |-> FALSE, loaderRef |-> NoRef]
  /\ listeners = <<>>
  /\ handles = <<>>
  /\ earlyHandle = 0
  /\ extRegs = 0
  /\ uncaught = 0
  /\ invoked = <<>>
  /\ io = <<>>
  /\ sequence = 0
  /\ posted = <<>>
  /\ sendCalls = <<>>
  /\ exited = FALSE
  /\ globalRequire = BootLoader
  /\ globalDefine = "define"
  /\ loaderExecs = 0
  /\ scriptInDoc = FALSE
  /\ swap = NoSwap
  /\ swapCalls = 0
  /\ configLog = <<>>
  /\ swapLog = <<>>

\* The pipeline of run(): the promise chain, its stages and its catch callback.
Init ==
  /\ host \in Hosts
  /\ InitReportEnv /\ InitLoaderEnv /\ InitState /\ InitSuites /\ InitSide

Next ==
  \/ RunCall
  \/ GetConfigStart
  \/ \E dl \in BOOLEAN, du \in BOOLEAN, ref \in {NoRef} \cup LoaderRefs :
       GetConfigResolve(dl, du, ref)
  \/ \E e \in Errors, dl \in BOOLEAN, du \in BOOLEAN : GetConfigFail(e, dl, du)
  \/ \E throws \in BOOLEAN : SwapLoaderStart(throws)
  \/ SwapScriptLoaded
  \/ SwapScriptFailed
  \/ SwapConfigure
  \/ SwapRejected
  \/ ResolveSuitesStart
  \/ ResolveSuitesPassThrough
  \/ \E status \in Statuses, body \in Bodies : ResolveSuitesResponse(status, body)
  \/ ResolveSuitesRequestFails
  \/ \E i \in 4..5 : MiddleStageStart(i)
  \/ \E i \in 4..5 : MiddleStageResolve(i)
  \/ \E i \in 4..NumStages, e \in Errors : StageFail(i, e)
  \/ RunExecutorStart
  \/ \E e \in Errors : RunExecutorThrows(e)
  \/ ExecutorResolve
  \/ CatchCallback

Spec == Init /\ [][Next]_vars

\* The error channel of the host: the registration made by run(), the
\* registrations and removals made by other code, and fatal errors.
BridgeInit ==
  /\ host \in Hosts
  /\ InitReportEnv /\ PlainLoaderEnv /\ InitState /\ PlainSuites /\ InitSide

BridgeNext ==
  \/ FirstRunCall
  \/ \E h \in CustomHandlers : RegisterExternal(h)
  \/ \E k \in 1..(MaxRegs + MaxRunCalls) : RemoveExternal(k)
  \/ \E e \in Errors : UncaughtError(e)

BridgeSpec == BridgeInit /\ [][BridgeNext]_vars

\* Fatal-error reporting: _handleError called by the catch callback of a run()
\* whose configuration stage fails and by the listener run() installed on the
\* error channel, which other code may supersede.
ReportNext ==
  \/ FirstRunCall
  \/ GetConfigStart
  \/ \E e \in Errors : GetConfigFail(e, FALSE, FALSE)
  \/ CatchCallback
  \/ \E h \in CustomHandlers : RegisterExternal(h)
  \/ \E e \in Errors : UncaughtError(e)

ReportSpec == BridgeInit /\ [][ReportNext]_vars

\* swapLoader called directly, any number of times.
SwapInit ==
  /\ host \in Hosts
  /\ PlainReportEnv /\ InitLoaderEnv /\ InitState /\ PlainSuites /\ InitSide

SwapNext ==
  \/ \E ref \in {NoRef} \cup LoaderRefs, hasOpts \in BOOLEAN, throws \in BOOLEAN :
       SwapLoaderCall(ref, hasOpts, throws)
  \/ SwapScriptLoaded
  \/ SwapScriptFailed
  \/ SwapConfigure
  \/ SwapRejected

SwapSpec == SwapInit /\ [][SwapNext]_vars

\* The wildcard alias maps: swapLoader's then-callback applied to every pair
\* of default and user options.
MergeInit ==
  /\ host = "browser"
  /\ PlainReportEnv /\ PlainLoaderEnv /\ InitState /\ PlainSuites
  /\ defaultStarMap \in StarOptions
  /\ userStarMap \in StarOptions
  /\ loaderOptionsArg = userStarMap
  /\ setConfigArgs = <<>>
  /\ NoGetConfig
  /\ mergedConfig = DefaultConfig
  /\ NoParse
  /\ NoWebDriver

MergeSpec == MergeInit /\ [][ConfigureWithOptions]_vars

\* getConfig: run() followed by calls of getConfig and the settling of the
\* module load, for every merged configuration.
ConfigInit ==
  /\ host \in Hosts
  /\ PlainReportEnv /\ PlainLoaderEnv /\ InitState /\ PlainSuites /\ NoStarMaps
  /\ NoGetConfig
  /\ mergedConfig \in ConfigInputs
  /\ NoParse
  /\ NoWebDriver

ConfigNext ==
  \/ FirstRunCall
  \/ \E moduleId \in ModuleIds : GetConfigCall(moduleId)
  \/ GetConfigLoaded
  \/ GetConfigLoadFails

ConfigSpec == ConfigInit /\ [][ConfigNext]_vars

\* The argument parser applied to every list of at most MaxArgs arguments.
ParseInit ==
  /\ host = "node"
  /\ PlainReportEnv /\ PlainLoaderEnv /\ InitState /\ PlainSuites /\ NoStarMaps
  /\ NoGetConfig
  /\ mergedConfig = DefaultConfig
  /\ rawArgs \in UNION {[1..n -> ArgTokens] : n \in 0..MaxArgs}
  /\ parsedArgs = [done |-> FALSE, args |-> <<>>]
  /\ NoWebDriver

ParseSpec == ParseInit /\ [][FromCommandLine]_vars

\* The WebDriver reporter, constructed with either setting of writeHtml,
\* receiving the suiteStart and suiteEnd events of a run: every suiteEnd ends
\* the innermost suite that has started.
WebDriverInit ==
  /\ host = "browser"
  /\ PlainReportEnv /\ PlainLoaderEnv /\ InitState /\ PlainSuites /\ NoStarMaps
  /\ NoGetConfig
  /\ mergedConfig = DefaultConfig
  /\ NoParse
  /\ WebDriver

WebDriverNext ==
  \/ suiteStart
  \/ suiteEnd

WebDriverSpec == WebDriverInit /\ [][WebDriverNext]_vars

(* ------------------------------- claims -------------------------------- *)
\* Number of calls of the early handler from the catch callback with error e.
RECURSIVE CatchCalls(_, _)
CatchCalls(log, e) ==
  IF log = <<>> THEN 0
  ELSE (IF Head(log).via = "catch" /\ Head(log).e = e THEN 1 ELSE 0)
       + CatchCalls(Tail(log), e)

\* C1: every error the catch callback of run() has passed to the error handler
\* carries the `reported` marker afterwards (the marker is set before the
\* rethrow), and the catch callback calls the handler at most once per error.
C1_MarkedOnceReported ==
  /\ \A k \in 1..Len(invoked) :
       invoked[k].via = "catch" => reported[invoked[k].e]
  /\ \A e \in Errors : CatchCalls(invoked, e) <= 1

\* C2 as stated: once the catch callback has run for the error a stage failed
\* with, no later stage has started, the handler has been called for an
\* unreported error, and the promise of run() is rejected with that error.
C2_RejectsWithStageError ==
  (failedStage # 0 /\ catchOutcome # "none") =>
    /\ Len(started) = failedStage
    /\ (~reported[failedError] => CatchCalls(invoked, failedError) = 1)
    /\ promiseState = "rejected"
    /\ promiseValue = failedError

\* C2 amended: when a stage fails no later stage starts and no stage stays in
\* progress; the promise of run() is never rejected before the handler has been
\* called for an unreported error; it rejects with the stage's error when the
\* error was already reported or the handler returned, with the handler's own
\* exception when the handler threw (browser), and not at all when the handler
\* ended the process (headless host, unreported error).
C2_Amended ==
  failedStage # 0 =>
    /\ Len(started) = failedStage
    /\ inFlight = {}
    /\ promiseState # "resolved"
    /\ promiseState = "rejected" =>
         (reported[failedError] \/ CatchCalls(invoked, failedError) = 1)
    /\ catchOutcome = "none" => promiseState = "pending"
    /\ catchOutcome \in {"skipped", "returned"} =>
         (promiseState = "rejected" /\ promiseValue = failedError)
    /\ catchOutcome = "skipped" <=> (pc \in {"settled", "dead"} /\ reported[failedError])
    /\ catchOutcome = "threw" =>
         (host = "browser" /\ promiseState = "rejected" /\ promiseValue = HandlerError)
    /\ catchOutcome = "exited" =>
         (host = "node" /\ exited /\ promiseState = "pending")
    /\ (host = "node" /\ ~reported[failedError]) => catchOutcome \in {"none", "exited"}

C2_Witness ==
  /\ failedStage = 3
  /\ catchOutcome = "returned"
  /\ promiseState = "rejected"
  /\ promiseValue = failedError
  /\ Len(invoked) = 1

\* C3: the stages start in the order of the chain, each one only after the
\* stage before it has settled successfully, and at most one stage is in
\* progress at any time.
C3_StagesInOrder ==
  /\ Len(started) <= NumStages
  /\ \A k \in 1..Len(started) : started[k] = Stages[k]
  /\ \A k \in 2..Len(started) : \E j \in 1..Len(settledOk) : settledOk[j] = k - 1
  /\ Cardinality(inFlight) <= 1
  /\ \A i \in inFlight : i = Len(started)

C3_Witness ==
  /\ started = Stages
  /\ inFlight = {NumStages}
  /\ Len(settledOk) = NumStages - 1

\* Number of registrations of the pipeline's own handler.
RECURSIVE EarlyRegistrations(_)
EarlyRegistrations(hs) ==
  IF hs = <<>> THEN 0
  ELSE (IF Head(hs).h = EarlyHandler THEN 1 ELSE 0) + EarlyRegistrations(Tail(hs))

\* C4: every call of run() returns the promise of the first call; the body of
\* run() runs once (one promise, one registration of the error handler, one
\* reset of the early-event buffer, every stage started at most once), and a
\* call after the first changes nothing: no stage, no registration, no buffer,
\* no handler call.
C4_RunMemoized ==
  /\ [](/\ \A k \in 1..Len(runReturns) : runReturns[k] = 1
        /\ promises <= 1
        /\ bufferResets <= 1
        /\ EarlyRegistrations(handles) <= 1
        /\ \A i \in 1..NumStages : CountOf(started, Stages[i]) <= 1)
  /\ [][(runReplaced /\ runReturns' # runReturns) =>
          UNCHANGED <<runReplaced, promises, bufferResets, chainVars, failVars,
                      promVars, earlyEvents, executorLog, config, bridgeVars,
                      reportVars, loaderVars>>]_vars

C4_Witness ==
  /\ Len(runReturns) = 2
  /\ runReturns[2] = runReturns[1]
  /\ promiseState = "rejected"
  /\ Len(invoked) = 1

\* C5: at most one listener of the bridge is installed on the host's error
\* channel, and it is the one of the most recent registration.
C5_SingleListener ==
  /\ Len(listeners) <= 1
  /\ \A k \in 1..Len(listeners) : listeners[k].lid = Len(handles)

\* C6: once the executor exists, what runExecutor did to it is: construct it,
\* emit every buffered early event once and in buffer order, then call run().
C6_ReplayInOrder ==
  executorLog # <<>> =>
    LET n == Len(executorLog)
    IN  /\ n = Len(earlyEvents) + 2
        /\ executorLog[1].op = "construct"
        /\ executorLog[n].op = "run"
        /\ \A k \in 1..Len(earlyEvents) :
             executorLog[k + 1] = [op |-> "emit", ev |-> earlyEvents[k]]

C6_Witness ==
  /\ earlyEvents = <<DepLoaderEvent, DepUseLoaderEvent>>
  /\ Len(executorLog) = 4
  /\ executorLog[2].ev = DepLoaderEvent
  /\ executorLog[3].ev = DepUseLoaderEvent

\* C7: once the early events have been replayed into the executor, the
\* early-event buffer holds no events.
C7_BufferDiscarded == executorLog # <<>> => earlyEvents = <<>>

\* C8: the k-th message posted to the collector carries sequence number k-1;
\* the counter equals the number of messages posted, so a call that fails to
\* serialise or finds no sessionId leaves it unchanged; without a sessionId
\* nothing is posted.
C8_SequenceNumbers ==
  /\ \A k \in 1..Len(posted) : posted[k].sequence = k - 1
  /\ sequence = Len(posted)
  /\ Len(posted) = CountOf(sendCalls, "posted")
  /\ session = "none" => (posted = <<>> /\ sequence = 0)

C8_Witness ==
  /\ sendCalls = <<"posted", "threw", "posted">>
  /\ posted[2].sequence = 1
  /\ sequence = 2

\* C9: a swapLoader call on a headless host whose loader module is already in
\* the module cache resolves with the loader that was active when it was
\* called, leaves _global.require and _global.define as they were and does not
\* execute the loader module; this holds for every repetition.
C9_CachedLoaderReused ==
  \A k \in 1..Len(swapLog) :
    swapLog[k].cached =>
      /\ swapLog[k].outcome = "done"
      /\ swapLog[k].loader = swapLog[k].before
      /\ swapLog[k].after = swapLog[k].before
      /\ swapLog[k].defineKept
      /\ swapLog[k].execs = 0

C9_Witness ==
  /\ host = "node"
  /\ Len(swapLog) >= 2
  /\ swapLog[1].cached /\ swapLog[1].ref \in LoaderRefs
  /\ swapLog[2].cached /\ swapLog[2].ref = swapLog[1].ref
  /\ swapLog[2].after = swapLog[1].before

\* The index after the last configuration call of the k-th finished swap.
ConfigEnd(k) ==
  IF k < Len(swapLog) THEN swapLog[k + 1].logFrom ELSE Len(configLog) + 1

\* C10: every swap that obtained a loader configures that loader with the
\* default options first and then, exactly when user options were given, with
\* the user options; a swap that failed configures nothing; no configuration
\* with user options is ever the first call of a swap.
C10_DefaultsThenUser ==
  \A k \in 1..Len(swapLog) :
    LET s == swapLog[k]
        from == s.logFrom
    IN  IF s.outcome = "done"
        THEN /\ ConfigEnd(k) = from + (IF s.hasOpts THEN 2 ELSE 1)
             /\ configLog[from] = [loader |-> s.loader, opts |-> "default"]
             /\ s.hasOpts => configLog[from + 1] = [loader |-> s.loader, opts |-> "user"]
        ELSE ConfigEnd(k) = from

C10_Witness ==
  /\ Len(swapLog) = 2
  /\ swapLog[1].outcome = "done" /\ swapLog[1].hasOpts
  /\ swapLog[2].outcome = "done" /\ ~swapLog[2].hasOpts
  /\ Len(configLog) = 3

C12_ScriptFailureRejects ==
  (host = "browser" /\ swap.caller = "pipeline" /\ swap.ref # NoRef
     /\ swap.phase \in {"failed", "rejected"}) =>
    /\ ~scriptInDoc
    /\ configLog = <<>>
    /\ started = <<"getConfig", "swapLoader">>
    /\ executorLog = <<>>
    /\ promiseState # "resolved"
    /\ swap.phase = "rejected" =>
         /\ swapLog[Len(swapLog)].outcome = "rejected"
         /\ failedStage = 2
         /\ failedError = "Eplain"
    /\ pc = "settled" => promiseState = "rejected" /\ promiseValue = "Eplain"

\* The script failed and the promise of run() has rejected.
C12_Witness ==
  /\ host = "browser"
  /\ swap.caller = "pipeline" /\ swap.ref # NoRef /\ swap.phase = "rejected"
  /\ ~scriptInDoc
  /\ pc = "settled" /\ promiseState = "rejected"

\* Some entry of the list of module ids is glob-style.
HasGlob(ids) == \E k \in 1..Len(ids) : ids[k] \in GlobIds

\* C13: on a browser host resolveSuites sends exactly one GET if some entry of
\* config.suites is glob-style, and a 200 response whose body is a JSON array
\* replaces config.suites by that array; if no entry is glob-style it sends no
\* request and leaves config.suites as it was.  Whenever the stage resolves it
\* passes on the loader swapLoader resolved with.
C13_BrowserSuiteResolution ==
  host = "browser" =>
    /\ Len(requests) <= 1
    /\ \A k \in 1..Len(requests) : requests[k].method = "GET"
    /\ stage >= 3 => (Len(requests) = 1 <=> HasGlob(cfgSuites))
    /\ ~HasGlob(cfgSuites) => requests = <<>> /\ suites = cfgSuites
    /\ (response.status = 200 /\ response.body.kind = "json") =>
         suites = response.body.value
    /\ (settledOk # <<>> /\ settledOk[Len(settledOk)] = 3) =>
         /\ swapLog # <<>>
         /\ chainValue = swapLog[Len(swapLog)].loader

\* A glob-style suite has been resolved through the proxy and the stage has
\* passed the loader on.
C13_Witness ==
  /\ host = "browser"
  /\ cfgSuites = <<"tests/*">>
  /\ Len(requests) = 1
  /\ response.status = 200
  /\ suites = MatchedIds
  /\ settledOk # <<>> /\ settledOk[Len(settledOk)] = 3
  /\ chainValue = swapLog[Len(swapLog)].loader

\* C14: on a browser host, when the proxy answers the request of resolveSuites
\* with a status other than 200 or with an empty body, the stage fails with
\* the suite-resolution error, config.suites is left as it was, and no later
\* stage starts: the executor is neither loaded nor run and the promise of
\* run() does not resolve.
C14_ProxyFailureFails ==
  (host = "browser" /\ response.status \in Statuses
     /\ (response.status # 200 \/ response.body = EmptyBody)) =>
    /\ suitesOutcome = "resolutionError"
    /\ suites = cfgSuites
    /\ failedStage = 3
    /\ failedError = "Eplain"
    /\ started = <<"getConfig", "swapLoader", "resolveSuites">>
    /\ executorLog = <<>>
    /\ promiseState # "resolved"
    /\ pc = "settled" => promiseState = "rejected"

\* The proxy answered 200 with an empty body and the promise of run() rejected.
C14_Witness ==
  /\ host = "browser"
  /\ response.status = 200 /\ response.body = EmptyBody
  /\ failedStage = 3
  /\ pc = "settled" /\ promiseState = "rejected"

\* C15: once a call of getConfig has returned a promise, every later call,
\* whatever its arguments, returns that promise: the configuration module is
\* requested once, the callback that merges the arguments and buffers the
\* deprecation events runs once, and a call made after the replacement changes
\* neither the number of loads nor the buffer.
C15_GetConfigMemoized ==
  /\ [](/\ \A i \in 1..Len(getConfigLog), j \in 1..Len(getConfigLog) :
            (i < j /\ getConfigLog[i].ret # 0) =>
              getConfigLog[j].ret = getConfigLog[i].ret
        /\ moduleLoads <= 1
        /\ callbackRuns <= 1
        /\ CountOf(earlyEvents, DepLoaderEvent) <= 1
        /\ CountOf(earlyEvents, DepUseLoaderEvent) <= 1)
  /\ [][(getConfigReplaced /\ getConfigLog' # getConfigLog) =>
          (moduleLoads' = moduleLoads /\ callbackRuns' = callbackRuns
           /\ earlyEvents' = earlyEvents /\ resolution' = resolution)]_vars

\* Two calls with different arguments returned the same promise, which has
\* resolved after buffering a deprecation event.
C15_Witness ==
  /\ Len(getConfigLog) = 2
  /\ getConfigLog[1] = [config |-> "cfgA", ret |-> 1]
  /\ getConfigLog[2] = [config |-> "cfgB", ret |-> 1]
  /\ resolution.state = "resolved"
  /\ earlyEvents # <<>>

\* A string that is a decimal literal.
IsNumericLiteral(str) ==
  str # <<>> /\ \A k \in 1..Len(str) : \E d \in 1..10 : Digits[d] = str[k]

\* C16: when the callback of getConfig has run, a resolved configuration has a
\* number as proxyPort: 9000 for an absent port, the value of a
\* decimal-literal string; every other string, the empty and the white-space
\* string included, makes the callback fail with the invalid-port error; an
\* absent proxyUrl becomes http://localhost:{proxyPort}/.
C16_ProxyPortNormalized ==
  (callbackRuns = 1 /\ resolution.error # "module") =>
    LET p == mergedConfig.proxyPort
        ok == resolution.state = "resolved"
        port == resolution.config.proxyPort
    IN  /\ ok => port.t = "num"
        /\ p.t = "unset" => ok /\ port = Num(9000)
        /\ (p.t = "str" /\ IsNumericLiteral(p.s)) => ok /\ port = Num(Decimal(p.s))
        /\ (p.t = "str" /\ ~IsNumericLiteral(p.s)) =>
             /\ resolution.state = "rejected"
             /\ resolution.error = "proxyPort must be a number"
        /\ (ok /\ port.t = "num" /\ mergedConfig.proxyUrl = Unset) =>
             resolution.config.proxyUrl =
               Str(<<"http://localhost:">> \o DecimalText(port.n) \o <<"/">>)

\* A path that starts at a root or with a scheme.
LooksAbsolute(path) == path # <<>> /\ path[1] \in {"/", "http:"}

\* C17: on either host a resolved configuration has an absolute
\* loaderOptions.baseUrl: basePath if the baseUrl was unset, the baseUrl itself
\* if the host's test finds it absolute, otherwise basePath followed by the
\* baseUrl with one separator between them; also when the user's basePath is
\* relative.
C17_BaseUrlAbsolute ==
  resolution.state = "resolved" =>
    LET c == mergedConfig
        u == (IF c.loader.kind = "obj" THEN c.loader ELSE c.loaderOptions).baseUrl
        b == resolution.config.baseUrl
        bp == resolution.config.basePath
    IN  /\ LooksAbsolute(b)
        /\ u = Unset => b = bp
        /\ (u # Unset /\ IsAbsoluteBaseUrl(u.s)) => b = u.s
        /\ (u # Unset /\ ~IsAbsoluteBaseUrl(u.s)) =>
             b = WithSlash(bp) \o (IF u.s[1] = "/" THEN Tail(u.s) ELSE u.s)

\* C19: when the callback of getConfig has run, the buffer holds one
\* deprecation event for `loader` if it was an object and one for `useLoader`
\* if it was an object, the `loader` event first, and none otherwise; the
\* resolved configuration has the object of `loader` as its loaderOptions and
\* the object of `useLoader` as its loaders; no executor exists yet.  A load
\* that fails buffers nothing.
C19_DeprecatedKeysBuffered ==
  LET c == mergedConfig
      dl == c.loader.kind = "obj"
      du == c.useLoader.kind = "obj"
  IN  /\ (callbackRuns = 0 \/ resolution.error = "module") => earlyEvents = <<>>
      /\ (callbackRuns = 1 /\ resolution.error # "module") =>
           /\ CountOf(earlyEvents, DepLoaderEvent) = (IF dl THEN 1 ELSE 0)
           /\ CountOf(earlyEvents, DepUseLoaderEvent) = (IF du THEN 1 ELSE 0)
           /\ Len(earlyEvents) = (IF dl THEN 1 ELSE 0) + (IF du THEN 1 ELSE 0)
           /\ (dl /\ du) => earlyEvents = <<DepLoaderEvent, DepUseLoaderEvent>>
           /\ executorLog = <<>>
           /\ resolution.state = "resolved" =>
                /\ dl => /\ resolution.config.loaderOptionsIs = "loader"
                         /\ resolution.config.baseUrl =
                              BaseUrl(c.loader.baseUrl, resolution.config.basePath)
                /\ du => resolution.config.loadersIs = "useLoader"

\* Both deprecated keys were objects and the configuration resolved.
C19_Witness ==
  /\ mergedConfig.loader = Obj(Str(<<"lib">>))
  /\ mergedConfig.loaderOptions = Obj(Str(<<"/", "lib">>))
  /\ mergedConfig.useLoader.kind = "obj"
  /\ resolution.state = "resolved"
  /\ earlyEvents = <<DepLoaderEvent, DepUseLoaderEvent>>
  /\ resolution.config.loaderOptionsIs = "loader"

\* The values of the arguments of raw whose key is key, in order; an argument
\* without '=' counts as true.
RECURSIVE ValuesOf(_, _)
ValuesOf(raw, key) ==
  IF raw = <<>> THEN <<>>
  ELSE (IF ArgKey(Head(raw)) # key THEN <<>>
        ELSE IF \E k \in 1..Len(Head(raw)) : Head(raw)[k] = "="
        THEN <<ArgValue(Head(raw))>> ELSE <<True>>)
       \o ValuesOf(Tail(raw), key)

C20_ReportedErrorsPassThrough ==
  /\ (pc \in {"settled", "dead"} /\ failedStage # 0 /\ reported[failedError]) =>
       /\ catchOutcome = "skipped"
       /\ invoked = <<>>
       /\ io = <<>>
       /\ sendCalls = <<>>
       /\ ~exited
       /\ promiseState = "rejected"
       /\ promiseValue = failedError
  /\ (settledOk # <<>> /\ settledOk[Len(settledOk)] = NumStages) =>
       /\ failedStage = 0
       /\ catchOutcome = "none"
       /\ invoked = <<>>
       /\ io = <<>>
       /\ promiseState = "resolved"
       /\ promiseValue = RunResult

\* The executor's run() rejected with an error that carried the marker and
\* the promise of run() has rejected with it, on a headless host.
C20_Witness ==
  /\ host = "node"
  /\ failedStage = NumStages
  /\ failedError = "Ereported"
  /\ catchOutcome = "skipped"
  /\ promiseState = "rejected"
  /\ promiseValue = "Ereported"

\* Number of entries of the log whose field f is v.
RECURSIVE CountField(_, _, _)
CountField(log, f, v) ==
  IF log = <<>> THEN 0
  ELSE (IF Head(log)[f] = v THEN 1 ELSE 0) + CountField(Tail(log), f, v)

\* C21: on a browser host every call of _handleError renders the error, and
\* sendErrorToConduit is called, before the rendering, exactly when the page
\* lies in /__intern/; on a headless host the error is written to the console
\* and the process then exits with status 1; no step is taken once the process
\* has exited.
C21_HandleErrorHostAware ==
  /\ [](LET n == CountField(invoked, "h", EarlyHandler)
        IN  IF host = "browser"
            THEN /\ CountField(io, "k", "render") = n
                 /\ Len(sendCalls) = (IF remotePath THEN n ELSE 0)
                 /\ \A k \in 1..Len(io) :
                      io[k].k = "post" =>
                        (k < Len(io) /\ io[k + 1] = [k |-> "render", e |-> io[k].e])
                 /\ ~exited
            ELSE /\ n <= 1
                 /\ n = 1 => /\ exited
                             /\ Len(io) = 2
                             /\ io[1].k = "console"
                             /\ io[2].k = "exit1")
  /\ [][~exited]_vars

\* C22: _global.require changes only in a step of swapLoader (its promise
\* executor or the onload of its script element), never in a step of another
\* stage; a swapLoader call without a loader reference for the host leaves it
\* as it was and resolves with it; the loader swapLoader resolved with is the
\* value the later stages receive, up to loadExecutorWithLoader.
C22_LoaderSlotFrame ==
  /\ [](/\ \A k \in 1..Len(swapLog) :
             swapLog[k].ref = NoRef =>
               /\ swapLog[k].after = swapLog[k].before
               /\ swapLog[k].loader = swapLog[k].before
               /\ swapLog[k].outcome = "done"
        /\ (stage \in 3..5 /\ pc = "inStage") =>
             /\ swapLog # <<>>
             /\ chainValue = swapLog[Len(swapLog)].loader)
  /\ [][globalRequire' # globalRequire =>
          /\ stage' = 2
          /\ pc' = "inStage"
          /\ swap' # swap
          /\ swap.phase \in {"idle", "done", "rejected", "scriptPending"}]_vars

\* loadExecutorWithLoader is in progress with the loader of a swap that
\* replaced the global require.
C22_Witness ==
  /\ stage = 5
  /\ pc = "inStage"
  /\ swapLog # <<>>
  /\ swapLog[1].ref # NoRef
  /\ swapLog[1].after # swapLog[1].before
  /\ chainValue = swapLog[1].loader
  /\ globalRequire = swapLog[1].after

\* C23: once remove() has been called on the handle a registration returned,
\* the listener that registration installed is no longer on the error channel
\* (so a fatal error no longer calls the registered handler through it).
C23_RemoveUninstalls ==
  \A k \in 1..Len(handles) :
    handles[k].removed => \A j \in 1..Len(listeners) : listeners[j].lid # k

\* C24: with HTML output enabled the current suite node is the list node of
\* the innermost suite that has started and not ended, and document.body when
\* every started suite has ended, so that the next top-level suite appends its
\* list to document.body as the first one did.
C24_SuiteNodeRestored ==
  writeHtml =>
    suiteNode = (IF openSuites = <<>> THEN BodyNode ELSE openSuites[Len(openSuites)])

====
